---------------------------- MODULE Spec2Model ----------------------------
(***************************************************************************)
(* pretty_assertions_sorted: SortedDebug::fmt, sort_maps and the           *)
(* assert_eq_sorted! macro of src/src/lib.rs.                               *)
(*                                                                         *)
(* Text is a sequence of one-character strings, so that the comparison of  *)
(* Term literals, the rendering and the "{ .. }" replacement work on       *)
(* characters, as the Rust code does.                                      *)
(***************************************************************************)
EXTENDS Integers, Sequences, FiniteSets, TLC

VARIABLES
    v,          \* sort_maps: the Value tree being normalised in place
    input,      \* sort_maps: the tree as it was before the first pass
    passes,     \* sort_maps: how many times sort_maps has run on v
    keyPairs,   \* sort_maps: the pairs the sort comparators were called on, last pass
    pc,         \* assert_eq_sorted!: position in the macro body
    left,       \* assert_eq_sorted!: left operand (its Debug text, as the parser reads it)
    right,      \* assert_eq_sorted!: right operand
    leftText,   \* format!("{:?}", left_val) of line 67
    rightText,  \* format!("{:?}", right_val) of line 67
    diff,       \* the two texts Comparison rendered for the panic message
    outcome,    \* "none" | "ok" | "assert_panic" | "parse_panic"
    fmtCalls,   \* SortedDebug::fmt runs of this invocation, per operand
    produced    \* operands for which fmt produced a normalised text, this invocation

vars == <<v, input, passes, keyPairs, pc, left, right, leftText, rightText,
          diff, outcome, fmtCalls, produced>>

sortVars == <<v, input, passes, keyPairs>>
assertVars == <<pc, left, right, leftText, rightText, diff, outcome, fmtCalls, produced>>

---------------------------------------------------------------------------
(* Bounds *)

\* longest element / entry sequence of a container in the generated trees
MaxLen == 2
\* longest List of single-field records (the sorts_list shape)
MaxRecords == 3
\* sort_maps passes applied to one tree
MaxPasses == 2

---------------------------------------------------------------------------
(* Text *)

\* The byte values Rust's str ordering compares.
CharCode(c) ==
    CASE c = "\n" -> 10
      [] c = " " -> 32
      [] c = "\"" -> 34
      [] c = "(" -> 40
      [] c = ")" -> 41
      [] c = "," -> 44
      [] c = "-" -> 45
      [] c = "." -> 46
      [] c = "0" -> 48
      [] c = "1" -> 49
      [] c = "2" -> 50
      [] c = "5" -> 53
      [] c = ":" -> 58
      [] c = "B" -> 66
      [] c = "F" -> 70
      [] c = "[" -> 91
      [] c = "]" -> 93
      [] c = "a" -> 97
      [] c = "b" -> 98
      [] c = "e" -> 101
      [] c = "l" -> 108
      [] c = "o" -> 111
      [] c = "r" -> 114
      [] c = "u" -> 117
      [] c = "v" -> 118
      [] c = "{" -> 123
      [] c = "}" -> 125

Min(a, b) == IF a <= b THEN a ELSE b

\* Ordering of two texts: -1 Less, 0 Equal, 1 Greater (lexicographic by byte,
\* a proper prefix is Less).
cmpStr(s, t) ==
    LET n == Min(Len(s), Len(t))
        d == {i \in 1..n : s[i] # t[i]}
    IN  IF d = {}
        THEN IF Len(s) < Len(t) THEN -1 ELSE IF Len(s) > Len(t) THEN 1 ELSE 0
        ELSE LET i == CHOOSE i \in d : \A j \in d : i <= j
             IN  IF CharCode(s[i]) < CharCode(t[i]) THEN -1 ELSE 1

---------------------------------------------------------------------------
(* The Value tree (darrentsung_debug_parser::Value, as sort_maps matches it) *)

Term(t) == [tag |-> "Term", text |-> t]
List(vs) == [tag |-> "List", values |-> vs]
Set(vs) == [tag |-> "Set", values |-> vs]
Tuple(vs) == [tag |-> "Tuple", values |-> vs]
Map(kvs) == [tag |-> "Map", values |-> kvs]
KeyValue(k, x) == [key |-> k, value |-> x]
Struct(n, fs) == [tag |-> "Struct", name |-> n, values |-> fs]
\* OrNonExhaustive::Value(IdentValue { ident, value })
Field(id, x) == [tag |-> "Value", ident |-> id, value |-> x]
\* OrNonExhaustive::NonExhaustive
NonExhaustive == [tag |-> "NonExhaustive"]

IsSeqTag(t) == t \in {"Set", "List", "Tuple"}

\* Position of a variant in the enum, which #[derive(Ord)] compares first.
VariantRank(t) ==
    CASE t = "Struct" -> 0
      [] t = "Set" -> 1
      [] t = "Map" -> 2
      [] t = "List" -> 3
      [] t = "Tuple" -> 4
      [] t = "Term" -> 5

RECURSIVE cmp(_, _)
RECURSIVE cmpVec(_, _, _)
RECURSIVE cmpKeyValues(_, _, _)
RECURSIVE cmpFields(_, _, _)

\* Vec<Value>: element by element from position i, the first difference
\* decides, a proper prefix is Less.
cmpVec(a, b, i) ==
    IF i > Len(a) /\ i > Len(b) THEN 0
    ELSE IF i > Len(a) THEN -1
    ELSE IF i > Len(b) THEN 1
    ELSE LET c == cmp(a[i], b[i])
         IN  IF c # 0 THEN c ELSE cmpVec(a, b, i + 1)

\* Vec<KeyValue>: each entry by key, then by value.
cmpKeyValues(a, b, i) ==
    IF i > Len(a) /\ i > Len(b) THEN 0
    ELSE IF i > Len(a) THEN -1
    ELSE IF i > Len(b) THEN 1
    ELSE LET k == cmp(a[i].key, b[i].key)
             c == IF k # 0 THEN k ELSE cmp(a[i].value, b[i].value)
         IN  IF c # 0 THEN c ELSE cmpKeyValues(a, b, i + 1)

\* One struct entry against another: Value(..) before NonExhaustive; two
\* fields by ident, then by value.
cmpField(x, y) ==
    IF x.tag = "NonExhaustive" /\ y.tag = "NonExhaustive" THEN 0
    ELSE IF x.tag = "NonExhaustive" THEN 1
    ELSE IF y.tag = "NonExhaustive" THEN -1
    ELSE LET c == cmpStr(x.ident, y.ident)
         IN  IF c # 0 THEN c ELSE cmp(x.value, y.value)

cmpFields(a, b, i) ==
    IF i > Len(a) /\ i > Len(b) THEN 0
    ELSE IF i > Len(a) THEN -1
    ELSE IF i > Len(b) THEN 1
    ELSE LET c == cmpField(a[i], b[i])
         IN  IF c # 0 THEN c ELSE cmpFields(a, b, i + 1)

\* Value::cmp, the structural total order.
cmp(a, b) ==
    IF a.tag # b.tag
    THEN IF VariantRank(a.tag) < VariantRank(b.tag) THEN -1 ELSE 1
    ELSE CASE a.tag = "Term" -> cmpStr(a.text, b.text)
           [] IsSeqTag(a.tag) -> cmpVec(a.values, b.values, 1)
           [] a.tag = "Map" -> cmpKeyValues(a.values, b.values, 1)
           [] a.tag = "Struct" ->
                LET c == cmpStr(a.name, b.name)
                IN  IF c # 0 THEN c ELSE cmpFields(a.values, b.values, 1)

\* The closure of line 147: |a, b| a.key.cmp(&b.key)
cmpKey(a, b) == cmp(a.key, b.key)

---------------------------------------------------------------------------
(* slice::sort_by: a stable sort; slices this short are insertion-sorted *)

\* The closure given to sort_by: |a, b| a.cmp(&b) on elements (by = "value",
\* lines 141, 155 and 161), |a, b| a.key.cmp(&b.key) on Map entries
\* (by = "key", line 147).
closure(a, b, by) == IF by = "key" THEN cmpKey(a, b) ELSE cmp(a, b)

\* Where s[i] lands: after every element that is smaller, and after every
\* equal element that came before it.
sortedPos(s, i, by) ==
    1 + Cardinality({j \in 1..Len(s) :
                        (closure(s[j], s[i], by) < 0)
                            \/ (closure(s[j], s[i], by) = 0 /\ j < i)})

sort_by(s, by) ==
    [p \in 1..Len(s) |-> s[CHOOSE i \in 1..Len(s) : sortedPos(s, i, by) = p]]

\* The pairs <<a, b>> the closure is called on: the element at i is compared
\* with the sorted prefix from its right end, down to and including the
\* first element it is not less than.
comparisons(s, by) ==
    UNION {LET pre == sort_by(SubSeq(s, 1, i - 1), by)
               stop == {k \in 1..(i - 1) : closure(s[i], pre[k], by) >= 0}
               low == IF stop = {} THEN 1
                      ELSE CHOOSE k \in stop : \A m \in stop : m <= k
           IN  {<<s[i], pre[k]>> : k \in low..(i - 1)}
           : i \in 2..Len(s)}

---------------------------------------------------------------------------
(* sort_maps *)

RECURSIVE sort_maps(_)

\* sort_struct that drops the NonExhaustive entry instead of passing over it.
IsValueEntry(e) == e.tag = "Value"
sort_struct_dropping_marker(x) ==
    LET s == SelectSeq(x.values, IsValueEntry)
    IN  [x EXCEPT !.values =
            [i \in 1..Len(s) |-> [s[i] EXCEPT !.value = sort_maps(s[i].value)]]]

\* Value::Struct: each field's value is normalised where it stands; the
\* NonExhaustive entry is skipped.
sort_struct(x) ==
    [x EXCEPT !.values =
        [i \in 1..Len(x.values) |->
            IF x.values[i].tag = "Value"
            THEN [x.values[i] EXCEPT !.value = sort_maps(x.values[i].value)]
            ELSE x.values[i]]]

\* sort_set that also merges elements that compare equal (a dedup after the
\* sort of line 141).
sort_set_merging_equal(x) ==
    LET s == sort_by(x.values, "value")
        keep == {i \in 1..Len(s) : i = 1 \/ cmp(s[i - 1], s[i]) # 0}
        d == [p \in 1..Cardinality(keep) |->
                 s[CHOOSE i \in keep : Cardinality({j \in keep : j <= i}) = p]]
    IN  [x EXCEPT !.values = [i \in 1..Len(d) |-> sort_maps(d[i])]]

\* Value::Set: sort the elements, then normalise each one.
sort_set(x) ==
    LET s == sort_by(x.values, "value")
    IN  [x EXCEPT !.values = [i \in 1..Len(s) |-> sort_maps(s[i])]]

\* Value::Map: sort the entries by key, then normalise each key and value.
sort_map(x) ==
    LET s == sort_by(x.values, "key")
    IN  [x EXCEPT !.values =
            [i \in 1..Len(s) |->
                [key |-> sort_maps(s[i].key), value |-> sort_maps(s[i].value)]]]

\* sort_list without the sort of line 155: the elements stay where they are.
sort_list_in_place(x) ==
    [x EXCEPT !.values = [i \in 1..Len(x.values) |-> sort_maps(x.values[i])]]

\* Value::List: sort the elements, then normalise each one.
sort_list(x) ==
    LET s == sort_by(x.values, "value")
    IN  [x EXCEPT !.values = [i \in 1..Len(s) |-> sort_maps(s[i])]]

\* Value::Tuple: sort the elements, then normalise each one.
sort_tuple(x) ==
    LET s == sort_by(x.values, "value")
    IN  [x EXCEPT !.values = [i \in 1..Len(s) |-> sort_maps(s[i])]]

sort_maps(x) ==
    CASE x.tag = "Struct" -> sort_struct(x)
      [] x.tag = "Set" -> sort_set(x)
      [] x.tag = "Map" -> sort_map(x)
      [] x.tag = "List" -> sort_list(x)
      [] x.tag = "Tuple" -> sort_tuple(x)
      [] x.tag = "Term" -> x

\* The calls of the sort comparator at one node, each as the variants of the
\* two values it is given (for a Map, of the two keys).
set_calls(x) == {<<p[1].tag, p[2].tag>> : p \in comparisons(x.values, "value")}
map_calls(x) == {<<p[1].key.tag, p[2].key.tag>> : p \in comparisons(x.values, "key")}
\* list_calls without the sort of line 155: no comparator call at a List.
list_calls_in_place(x) == {}
list_calls(x) == {<<p[1].tag, p[2].tag>> : p \in comparisons(x.values, "value")}

tuple_calls(x) == {<<p[1].tag, p[2].tag>> : p \in comparisons(x.values, "value")}

\* The comparator calls of one whole sort_maps run.
RECURSIVE compared(_)
compared(x) ==
    CASE x.tag = "Struct" ->
            UNION {IF x.values[i].tag = "Value" THEN compared(x.values[i].value) ELSE {}
                   : i \in 1..Len(x.values)}
      [] x.tag = "Set" ->
            set_calls(x) \cup UNION {compared(x.values[i]) : i \in 1..Len(x.values)}
      [] x.tag = "Map" ->
            map_calls(x)
                \cup UNION {compared(x.values[i].key) \cup compared(x.values[i].value)
                            : i \in 1..Len(x.values)}
      [] x.tag = "List" ->
            list_calls(x) \cup UNION {compared(x.values[i]) : i \in 1..Len(x.values)}
      [] x.tag = "Tuple" ->
            tuple_calls(x) \cup UNION {compared(x.values[i]) : i \in 1..Len(x.values)}
      [] x.tag = "Term" -> {}

---------------------------------------------------------------------------
(* Parsed Debug outputs the model draws its inputs from *)

SeqsUpTo(S, n) == UNION {[1..k -> S] : k \in 0..n}

Lit15 == <<"-", "1", ".", "5">>
Lit101 == <<"1", "0", ".", "1">>
Lit20 == <<"2", ".", "0">>
\* the Debug text of the &str "{ .. }"
LitMarker == <<"\"", "{", " ", ".", ".", " ", "}", "\"">>
Foo == <<"F", "o", "o">>
IdentValue == <<"v", "a", "l", "u", "e">>
IdentBar == <<"b", "a", "r">>

Terms == {Term(Lit15), Term(Lit101), Term(Lit20)}
FewTerms == {Term(Lit101), Term(Lit20)}

\* Foo { value: t }, Foo { value: t, .. } and Foo { .. }
Records(T) == {Struct(Foo, <<Field(IdentValue, t)>>) : t \in T}
OpenRecords(T) == {Struct(Foo, <<Field(IdentValue, t), NonExhaustive>>) : t \in T}
OnlyOpen == Struct(Foo, <<NonExhaustive>>)

\* Containers of Terms
FlatLists == {List(s) : s \in SeqsUpTo(FewTerms, MaxLen)}
FlatSets == {Set(s) : s \in SeqsUpTo(FewTerms, MaxLen)}

\* What the nested containers hold
Kids == FewTerms \cup FlatLists \cup FlatSets \cup Records(FewTerms) \cup {OnlyOpen}

\* Containers of zero, one or two Kids
KidSeqs == {<<>>} \cup {<<a>> : a \in Kids} \cup {<<a, b>> : a \in Kids, b \in Kids}
Nested == {List(s) : s \in KidSeqs} \cup {Set(s) : s \in KidSeqs}
              \cup {Tuple(s) : s \in KidSeqs}

\* Maps of up to two entries, any Kid as key
MapValues == {Term(Lit20), List(<<Term(Lit20), Term(Lit101)>>),
              Struct(Foo, <<Field(IdentValue, Term(Lit15))>>)}
Entries == {KeyValue(k, x) : k \in Kids, x \in MapValues}
Maps == {Map(<<>>)} \cup {Map(<<e>>) : e \in Entries}
            \cup {Map(<<e, f>>) : e \in Entries, f \in Entries}

\* Foo { bar: kid [, value: t] [, ..] } and Foo { value: t, bar: kid [, ..] },
\* the kid a List of Lists too
ListsOfLists == {List(<<a, b>>) : a \in FlatLists, b \in FlatLists}
Structs ==
    LET bars == {<<Field(IdentBar, k)>> : k \in Kids \cup ListsOfLists}
        vals == {<<Field(IdentValue, x)>> : x \in FewTerms \cup FlatSets}
    IN  {Struct(Foo, fs \o m) :
            fs \in bars \cup {b \o t : b \in bars, t \in vals}
                       \cup {t \o b : b \in bars, t \in vals},
            m \in {<<>>, <<NonExhaustive>>}}

\* Lists of single-field records, as in tests::sorts_list
RecordLists == {List(s) : s \in SeqsUpTo(Records(Terms), MaxRecords)}

SortInputs == Terms \cup Kids \cup OpenRecords(Terms) \cup Nested \cup Maps
                  \cup Structs \cup RecordLists

---------------------------------------------------------------------------
(* sort_maps applied to a parsed tree, once and again *)

Idle ==
    /\ pc = "idle"
    /\ left = [ok |-> FALSE]
    /\ right = [ok |-> FALSE]
    /\ leftText = <<>>
    /\ rightText = <<>>
    /\ diff = <<>>
    /\ outcome = "none"
    /\ fmtCalls = [left |-> 0, right |-> 0]
    /\ produced = {}

InitSort ==
    /\ v \in SortInputs
    /\ input = v
    /\ passes = 0
    /\ keyPairs = {}
    /\ Idle

SortMaps ==
    /\ passes < MaxPasses
    /\ v' = sort_maps(v)
    /\ keyPairs' = compared(v)
    /\ passes' = passes + 1
    /\ UNCHANGED <<input, assertVars>>

NextSort == SortMaps

SpecSort == InitSort /\ [][NextSort]_vars

---------------------------------------------------------------------------
(* format!("{:#?}", value): the pretty Debug rendering of a Value *)

\* A text is held as the sequence of its lines, each a sequence of
\* characters: the text is the lines joined by "\n". No Term, name or ident
\* holds a line break (Debug escapes them), so two texts are equal exactly
\* when their lines are.

Pad == <<" ", " ", " ", " ">>

\* String concatenation: the last line of a runs on into the first of b.
Cat(a, b) ==
    SubSeq(a, 1, Len(a) - 1) \o <<a[Len(a)] \o b[1]>> \o SubSeq(b, 2, Len(b))

\* What the formatter's PadAdapter does to a nested entry: four spaces at the
\* start of every line of it.
Indent(t) == [i \in 1..Len(t) |-> Pad \o t[i]]

\* The entries of a pretty-printed container: each indented, followed by a
\* comma and a line break.
RECURSIVE Lines(_, _)
Lines(items, i) ==
    IF i > Len(items) THEN <<>>
    ELSE Cat(Indent(items[i]), <<<<",">>>>) \o Lines(items, i + 1)

Block(open, items, close) ==
    IF Len(items) = 0 THEN <<open \o close>>
    ELSE <<open>> \o Lines(items, 1) \o <<close>>

RECURSIVE RenderWith(_, _)

\* A struct's entries: "ident: value," per field, ".." for the marker.
RECURSIVE FieldLines(_, _, _)
FieldLines(fs, i, open) ==
    IF i > Len(fs) THEN <<>>
    ELSE IF fs[i].tag = "Value"
         THEN Cat(Indent(Cat(<<fs[i].ident \o <<":", " ">>>>,
                             RenderWith(fs[i].value, open))),
                  <<<<",">>>>)
                  \o FieldLines(fs, i + 1, open)
         ELSE Indent(<<<<".", ".">>>>) \o FieldLines(fs, i + 1, open)

\* open is what a struct showing nothing but the marker is given after its
\* name: the formatter writes "{ .. }".
RenderWith(x, open) ==
    CASE x.tag = "Term" -> <<x.text>>
      [] x.tag = "List" ->
            Block(<<"[">>, [i \in 1..Len(x.values) |-> RenderWith(x.values[i], open)],
                  <<"]">>)
      [] x.tag = "Set" ->
            Block(<<"{">>, [i \in 1..Len(x.values) |-> RenderWith(x.values[i], open)],
                  <<"}">>)
      [] x.tag = "Tuple" ->
            Block(<<"(">>, [i \in 1..Len(x.values) |-> RenderWith(x.values[i], open)],
                  <<")">>)
      [] x.tag = "Map" ->
            Block(<<"{">>,
                  [i \in 1..Len(x.values) |->
                      Cat(Cat(RenderWith(x.values[i].key, open), <<<<":", " ">>>>),
                          RenderWith(x.values[i].value, open))],
                  <<"}">>)
      [] x.tag = "Struct" ->
            IF \A i \in 1..Len(x.values) : x.values[i].tag = "NonExhaustive"
            THEN <<x.name \o <<" ">> \o open>>
            ELSE <<x.name \o <<" ", "{">>>> \o FieldLines(x.values, 1, open)
                     \o <<<<"}">>>>

OneLineOpen == <<"{", " ", ".", ".", " ", "}">>

Render(x) == RenderWith(x, OneLineOpen)

---------------------------------------------------------------------------
(* SortedDebug::fmt *)

\* str::replace(from, "{\n}") within one line: every match, left to right,
\* becomes "{", a line break and "}".
RECURSIVE ReplaceLine(_, _)
ReplaceLine(line, from) ==
    LET n == Len(from)
        at == {i \in 1..(Len(line) - n + 1) : SubSeq(line, i, i + n - 1) = from}
    IN  IF at = {} THEN <<line>>
        ELSE LET m == CHOOSE i \in at : \A j \in at : i <= j
             IN  <<SubSeq(line, 1, m - 1) \o <<"{">>>>
                     \o Cat(<<<<"}">>>>, ReplaceLine(SubSeq(line, m + n, Len(line)), from))

\* The pattern holds no line break, so the replacement works line by line.
RECURSIVE ReplaceFrom(_, _, _)
ReplaceFrom(t, i, from) ==
    IF i > Len(t) THEN <<>>
    ELSE ReplaceLine(t[i], from) \o ReplaceFrom(t, i + 1, from)

\* .replace("{ .. }", "{\n}") of line 123
Replace(t) == ReplaceFrom(t, 1, OneLineOpen)

\* parse(&format!("{:?}", self.0)): the parser belongs to another crate; an
\* operand is held as what the parser returns for its Debug text, Ok(value)
\* or Err.
Ok(x) == [ok |-> TRUE, value |-> x]
Err == [ok |-> FALSE]
parse(operand) == operand

\* Lines 117 to 123 on a parsed value: sort, render, replace.
formatted_output(value) == Replace(Render(sort_maps(value)))

---------------------------------------------------------------------------
(* assert_eq_sorted! *)

\* A is B with the entries of Sets and Maps, at any depth, in another order.
Perms(n) == {f \in [1..n -> 1..n] : \A i, j \in 1..n : i # j => f[i] # f[j]}

RECURSIVE SameUpToOrder(_, _)
SameUpToOrder(a, b) ==
    /\ a.tag = b.tag
    /\ CASE a.tag = "Term" -> a.text = b.text
         [] a.tag \in {"List", "Tuple"} ->
                /\ Len(a.values) = Len(b.values)
                /\ \A i \in 1..Len(a.values) : SameUpToOrder(a.values[i], b.values[i])
         [] a.tag = "Set" ->
                /\ Len(a.values) = Len(b.values)
                /\ \E f \in Perms(Len(a.values)) :
                       \A i \in 1..Len(a.values) : SameUpToOrder(a.values[i], b.values[f[i]])
         [] a.tag = "Map" ->
                /\ Len(a.values) = Len(b.values)
                /\ \E f \in Perms(Len(a.values)) :
                       \A i \in 1..Len(a.values) :
                           /\ SameUpToOrder(a.values[i].key, b.values[f[i]].key)
                           /\ SameUpToOrder(a.values[i].value, b.values[f[i]].value)
         [] a.tag = "Struct" ->
                /\ a.name = b.name
                /\ Len(a.values) = Len(b.values)
                /\ \A i \in 1..Len(a.values) :
                       /\ a.values[i].tag = b.values[i].tag
                       /\ a.values[i].tag = "Value" =>
                              /\ a.values[i].ident = b.values[i].ident
                              /\ SameUpToOrder(a.values[i].value, b.values[i].value)

\* Operands of the assertion
SetSeqs == {<<>>} \cup {<<a>> : a \in FlatSets} \cup {<<a, b>> : a \in FlatSets, b \in FlatSets}
AssertValues ==
    FewTerms \cup {Term(LitMarker)} \cup FlatLists \cup FlatSets
        \cup Records(FewTerms) \cup OpenRecords(FewTerms) \cup {OnlyOpen}
        \cup {List(s) : s \in SetSeqs} \cup {Set(s) : s \in SetSeqs}
        \cup {Map(<<KeyValue(k, Term(Lit20))>>) : k \in FlatSets}
        \cup {Map(<<KeyValue(Term(Lit101), OnlyOpen), KeyValue(Term(Lit20), x)>>) :
                  x \in Records(FewTerms) \cup OpenRecords(FewTerms) \cup {Term(LitMarker)}}
        \cup {Struct(Foo, <<Field(IdentValue, x)>>) : x \in {Term(LitMarker), OnlyOpen}}
Operands == {Ok(x) : x \in AssertValues} \cup {Err}
Probes == {Err, Ok(Term(Lit20)), Ok(List(<<Term(Lit20), Term(Lit101)>>)), Ok(OnlyOpen),
           Ok(Struct(Foo, <<Field(IdentValue, Term(Lit20))>>))}

Init ==
    /\ v = Term(Lit20)
    /\ input = v
    /\ passes = 0
    /\ keyPairs = {}
    /\ Idle

\* The macro is entered with two operands.
Invoke ==
    /\ pc = "idle"
    /\ \E l \in Operands, r \in Operands :
          /\ \/ l \in Probes
             \/ r \in Probes
             \/ l.ok /\ r.ok /\ SameUpToOrder(l.value, r.value)
          /\ left' = l
          /\ right' = r
    /\ pc' = "fmt_left"
    /\ UNCHANGED <<leftText, rightText, diff, outcome, fmtCalls, produced, sortVars>>

\* format!("{:?}", left_val) of line 67: SortedDebug::fmt on the left operand.
FmtLeft ==
    /\ pc = "fmt_left"
    /\ fmtCalls' = [fmtCalls EXCEPT !.left = @ + 1]
    /\ IF parse(left).ok
       THEN /\ leftText' = formatted_output(parse(left).value)
            /\ produced' = produced \cup {"left"}
            /\ pc' = "fmt_right"
            /\ UNCHANGED outcome
       ELSE /\ outcome' = "parse_panic"
            /\ pc' = "done"
            /\ UNCHANGED <<leftText, produced>>
    /\ UNCHANGED <<left, right, rightText, diff, sortVars>>

\* FmtRight falling back to an unsorted text when the parse fails, instead
\* of the panic of line 113.
FmtRight_falling_back ==
    /\ pc = "fmt_right"
    /\ fmtCalls' = [fmtCalls EXCEPT !.right = @ + 1]
    /\ rightText' = IF parse(right).ok THEN formatted_output(parse(right).value)
                    ELSE <<<<"?">>>>
    /\ produced' = produced \cup {"right"}
    /\ pc' = "compare"
    /\ UNCHANGED <<left, right, leftText, diff, outcome, sortVars>>

\* format!("{:?}", right_val) of line 67.
FmtRight ==
    /\ pc = "fmt_right"
    /\ fmtCalls' = [fmtCalls EXCEPT !.right = @ + 1]
    /\ IF parse(right).ok
       THEN /\ rightText' = formatted_output(parse(right).value)
            /\ produced' = produced \cup {"right"}
            /\ pc' = "compare"
            /\ UNCHANGED outcome
       ELSE /\ outcome' = "parse_panic"
            /\ pc' = "done"
            /\ UNCHANGED <<rightText, produced>>
    /\ UNCHANGED <<left, right, leftText, diff, sortVars>>

\* Compare on the operands as parsed, not on the two normalised texts.
Compare_unsorted ==
    /\ pc = "compare"
    /\ IF parse(left).value = parse(right).value
       THEN outcome' = "ok" /\ pc' = "done"
       ELSE pc' = "comparison" /\ UNCHANGED outcome
    /\ UNCHANGED <<left, right, leftText, rightText, diff, fmtCalls, produced, sortVars>>

\* if !(.. == ..) of line 67
Compare ==
    /\ pc = "compare"
    /\ IF leftText = rightText
       THEN outcome' = "ok" /\ pc' = "done"
       ELSE pc' = "comparison" /\ UNCHANGED outcome
    /\ UNCHANGED <<left, right, leftText, rightText, diff, fmtCalls, produced, sortVars>>

\* ComparisonPanic given the two texts of line 67 instead of the wrappers.
ComparisonPanic_from_texts ==
    /\ pc = "comparison"
    /\ diff' = <<leftText, rightText>>
    /\ outcome' = "assert_panic"
    /\ pc' = "done"
    /\ UNCHANGED <<left, right, leftText, rightText, fmtCalls, produced, sortVars>>

\* Comparison::new(&left_val, &right_val).to_string() and the panic of lines
\* 70 to 81: Comparison is given the two SortedDebug wrappers and formats
\* each of them again.
ComparisonPanic ==
    /\ pc = "comparison"
    /\ fmtCalls' = [left |-> fmtCalls.left + 1, right |-> fmtCalls.right + 1]
    /\ diff' = <<formatted_output(parse(left).value), formatted_output(parse(right).value)>>
    /\ outcome' = "assert_panic"
    /\ pc' = "done"
    /\ UNCHANGED <<left, right, leftText, rightText, produced, sortVars>>

\* The macro's block ends (or unwinds): its locals are dropped.
Return ==
    /\ pc = "done"
    /\ pc' = "idle"
    /\ left' = Err
    /\ right' = Err
    /\ leftText' = <<>>
    /\ rightText' = <<>>
    /\ diff' = <<>>
    /\ outcome' = "none"
    /\ fmtCalls' = [left |-> 0, right |-> 0]
    /\ produced' = {}
    /\ UNCHANGED sortVars

Next == Invoke \/ FmtLeft \/ FmtRight \/ Compare \/ ComparisonPanic \/ Return

Spec == Init /\ [][Next]_vars

---------------------------------------------------------------------------
(* Properties of sort_maps, under SpecSort *)

\* C1: normalisation is idempotent: sort_maps applied to a tree that sort_maps
\* has normalised leaves the tree, and so its rendering, identical.
C1_Idempotent ==
    passes >= 1 => /\ sort_maps(v) = v
                   /\ Render(sort_maps(v)) = Render(v)

NonDecreasing(s, compare(_, _)) ==
    \A i \in 1..(Len(s) - 1) : compare(s[i], s[i + 1]) <= 0

RECURSIVE AllSorted(_)
AllSorted(x) ==
    CASE x.tag = "Term" -> TRUE
      [] x.tag = "Struct" ->
            \A i \in 1..Len(x.values) :
                x.values[i].tag = "Value" => AllSorted(x.values[i].value)
      [] x.tag = "Map" ->
            /\ NonDecreasing(x.values, cmpKey)
            /\ \A i \in 1..Len(x.values) :
                   AllSorted(x.values[i].key) /\ AllSorted(x.values[i].value)
      [] IsSeqTag(x.tag) ->
            /\ NonDecreasing(x.values, cmp)
            /\ \A i \in 1..Len(x.values) : AllSorted(x.values[i])

\* C3: after one sort_maps every Set, List and Tuple at every depth has its
\* elements, and every Map its keys, in non-decreasing order of the
\* structural order taken on the normalised children.
C3_SortedAtEveryDepth == passes >= 1 => AllSorted(v)

Record(t) == Struct(Foo, <<Field(IdentValue, Term(t))>>)

IsRecordList(x) ==
    /\ x.tag = "List"
    /\ \A i \in 1..Len(x.values) : \E t \in Terms : x.values[i] = Record(t.text)

Literals(x) == [i \in 1..Len(x.values) |-> x.values[i].values[1].value.text]

Skeleton(x) ==
    [name |-> x.name,
     labels |-> [i \in 1..Len(x.values) |->
                    IF x.values[i].tag = "Value" THEN x.values[i].ident ELSE <<".", ".">>]]

\* The skeletons of the Struct nodes of a tree, and how often each occurs.
RECURSIVE Skeletons(_)
Skeletons(x) ==
    CASE x.tag = "Term" -> {}
      [] x.tag = "Struct" ->
            {Skeleton(x)} \cup
                UNION {IF x.values[i].tag = "Value" THEN Skeletons(x.values[i].value) ELSE {}
                       : i \in 1..Len(x.values)}
      [] x.tag = "Map" ->
            UNION {Skeletons(x.values[i].key) \cup Skeletons(x.values[i].value)
                   : i \in 1..Len(x.values)}
      [] IsSeqTag(x.tag) -> UNION {Skeletons(x.values[i]) : i \in 1..Len(x.values)}

RECURSIVE SumOver(_, _)
SumOver(counts, i) == IF i > Len(counts) THEN 0 ELSE counts[i] + SumOver(counts, i + 1)

RECURSIVE Occurs(_, _)
Occurs(x, sk) ==
    CASE x.tag = "Term" -> 0
      [] x.tag = "Struct" ->
            (IF Skeleton(x) = sk THEN 1 ELSE 0)
                + SumOver([i \in 1..Len(x.values) |->
                              IF x.values[i].tag = "Value"
                              THEN Occurs(x.values[i].value, sk) ELSE 0], 1)
      [] x.tag = "Map" ->
            SumOver([i \in 1..Len(x.values) |->
                        Occurs(x.values[i].key, sk) + Occurs(x.values[i].value, sk)], 1)
      [] IsSeqTag(x.tag) ->
            SumOver([i \in 1..Len(x.values) |-> Occurs(x.values[i], sk)], 1)

\* C8: sort_maps leaves a Struct's name, the number of its entries, their
\* labels and the place of the open marker as they were; each labelled value
\* is replaced by its normalised form. Stated of the root Struct entry by
\* entry, and of the Struct nodes at every depth by their skeletons.
C8_StructFrame ==
    passes = 1 =>
        /\ input.tag = "Struct" =>
              /\ v.tag = "Struct"
              /\ v.name = input.name
              /\ Len(v.values) = Len(input.values)
              /\ \A i \in 1..Len(input.values) :
                    IF input.values[i].tag = "Value"
                    THEN /\ v.values[i].tag = "Value"
                         /\ v.values[i].ident = input.values[i].ident
                         /\ v.values[i].value = sort_maps(input.values[i].value)
                    ELSE v.values[i] = NonExhaustive
        /\ \A sk \in Skeletons(input) \cup Skeletons(v) : Occurs(v, sk) = Occurs(input, sk)

C8_Witness ==
    /\ passes = 1
    /\ input.tag = "Struct"
    /\ Len(input.values) = 3
    /\ input.values[1].ident = IdentValue
    /\ input.values[3] = NonExhaustive
    /\ v.values[3] = NonExhaustive
    /\ v.values[2].value # input.values[2].value

TwoStructs == <<"Struct", "Struct">>

\* Some Set, List, Tuple (by element) or Map (by key) of the tree holds at
\* least n entries, of which all (every = TRUE) or at least two are Structs.
RECURSIVE StructSiblings(_, _)
StructSiblings(x, every) ==
    CASE x.tag = "Term" -> FALSE
      [] x.tag = "Struct" ->
            \E i \in 1..Len(x.values) :
                x.values[i].tag = "Value" /\ StructSiblings(x.values[i].value, every)
      [] x.tag = "Map" ->
            \/ LET n == Cardinality({i \in 1..Len(x.values) : x.values[i].key.tag = "Struct"})
               IN  n >= 2 /\ (every => n = Len(x.values))
            \/ \E i \in 1..Len(x.values) :
                   \/ StructSiblings(x.values[i].key, every)
                   \/ StructSiblings(x.values[i].value, every)
      [] IsSeqTag(x.tag) ->
            \/ LET n == Cardinality({i \in 1..Len(x.values) : x.values[i].tag = "Struct"})
               IN  n >= 2 /\ (every => n = Len(x.values))
            \/ \E i \in 1..Len(x.values) : StructSiblings(x.values[i], every)

\* C10 as claimed: the comparator that sorts elements and Map keys is never
\* applied to two Struct values.
C10_NoStructSortKeys == passes >= 1 => TwoStructs \notin keyPairs

\* C10 amended: the comparator is applied to two Struct values whenever a Set,
\* List or Tuple of two or more elements holds only Structs, or a Map of two
\* or more entries only Struct keys; and only when some such container holds
\* at least two Structs.
C10_StructSortKeys ==
    passes >= 1 =>
        /\ StructSiblings(input, TRUE) => TwoStructs \in keyPairs
        /\ TwoStructs \in keyPairs => StructSiblings(input, FALSE)

C10_Witness ==
    /\ passes = 1
    /\ input = List(<<Record(Lit101), Record(Lit20), Record(Lit15)>>)
    /\ TwoStructs \in keyPairs

---------------------------------------------------------------------------
(* Properties of assert_eq_sorted!, under Spec *)

BothParse == left.ok /\ right.ok

\* C2: two operands that differ only in the order of the entries of their
\* Sets and Maps, at any depth, render to the same text, and the assertion
\* succeeds.
C2_OrderInvariant ==
    pc = "done" /\ BothParse /\ SameUpToOrder(left.value, right.value) =>
        outcome = "ok" /\ leftText = rightText

\* C4: when both operands parse, the assertion succeeds, with nothing else
\* to show for it, exactly when the two normalised texts are equal; when
\* they differ it panics with the diff of those two texts.
C4_SucceedsIffTextsEqual ==
    pc = "done" /\ BothParse =>
        LET l == formatted_output(left.value)
            r == formatted_output(right.value)
        IN  /\ outcome \in {"ok", "assert_panic"}
            /\ outcome = "ok" <=> l = r
            /\ outcome = "ok" => diff = <<>>
            /\ outcome = "assert_panic" => diff = <<l, r>>

C4_Witness ==
    /\ pc = "done"
    /\ BothParse
    /\ left.value # right.value
    /\ outcome = "ok"

\* C5: when the Debug text of either operand does not parse, the assertion
\* ends in the parse-failure panic: no success, no diff, and no normalised
\* text for that operand.
C5_ParseFailurePanics ==
    /\ pc = "done" /\ ~BothParse => outcome = "parse_panic" /\ diff = <<>>
    /\ outcome \in {"ok", "assert_panic"} => BothParse
    /\ ~left.ok => "left" \notin produced /\ leftText = <<>>
    /\ ~right.ok => "right" \notin produced /\ rightText = <<>>

C5_Witness ==
    /\ pc = "done"
    /\ left.ok
    /\ ~right.ok
    /\ outcome = "parse_panic"
    /\ "left" \in produced

\* The rendering with the rewrite done at the Struct nodes: a struct showing
\* nothing but the marker is written as its name, "{", a line break and "}".
OpenHere == <<"@">>
RewrittenAtStructs(x) == ReplaceFrom(RenderWith(x, OpenHere), 1, OpenHere)

\* C6: the rewrite changes the rendering at exactly the Structs that show
\* nothing but the open marker; open Structs with fields keep them, and
\* nothing else, the text of Terms in particular, is altered.
C6_RewriteOnlyAtOpenStructs ==
    /\ "left" \in produced => leftText = RewrittenAtStructs(sort_maps(left.value))
    /\ "right" \in produced => rightText = RewrittenAtStructs(sort_maps(right.value))

---------------------------------------------------------------------------
(* sort_maps only permutes, under SpecSort *)

\* b is a with the entries of its containers, at every depth, in some order:
\* nothing dropped, doubled or merged, every Map key still with its value,
\* every struct entry in its place and every Term literal as it was.
RECURSIVE Permuted(_, _)
Permuted(a, b) ==
    /\ a.tag = b.tag
    /\ CASE a.tag = "Term" -> a.text = b.text
         [] a.tag = "Struct" ->
                /\ a.name = b.name
                /\ Len(a.values) = Len(b.values)
                /\ \A i \in 1..Len(a.values) :
                       IF a.values[i].tag = "Value"
                       THEN /\ b.values[i].tag = "Value"
                            /\ b.values[i].ident = a.values[i].ident
                            /\ Permuted(a.values[i].value, b.values[i].value)
                       ELSE b.values[i] = NonExhaustive
         [] a.tag = "Map" ->
                /\ Len(a.values) = Len(b.values)
                /\ \E f \in Perms(Len(a.values)) :
                       \A i \in 1..Len(a.values) :
                           /\ Permuted(a.values[f[i]].key, b.values[i].key)
                           /\ Permuted(a.values[f[i]].value, b.values[i].value)
         [] IsSeqTag(a.tag) ->
                /\ Len(a.values) = Len(b.values)
                /\ \E f \in Perms(Len(a.values)) :
                       \A i \in 1..Len(a.values) : Permuted(a.values[f[i]], b.values[i])

\* C11: sort_maps only permutes. The result has the variant of the input;
\* a Set, List or Tuple holds exactly the normalised forms of its elements,
\* as many times as they occurred; a Map holds each entry's normalised key
\* with that entry's normalised value; a Term is unchanged; and this holds
\* of the containers at every depth.
C11_OnlyPermutes ==
    passes = 1 =>
        /\ v.tag = input.tag
        /\ input.tag = "Term" => v = input
        /\ IsSeqTag(input.tag) =>
              /\ Len(v.values) = Len(input.values)
              /\ \E f \in Perms(Len(input.values)) :
                    \A i \in 1..Len(input.values) :
                        v.values[i] = sort_maps(input.values[f[i]])
        /\ input.tag = "Map" =>
              /\ Len(v.values) = Len(input.values)
              /\ \E f \in Perms(Len(input.values)) :
                    \A i \in 1..Len(input.values) :
                        /\ v.values[i].key = sort_maps(input.values[f[i]].key)
                        /\ v.values[i].value = sort_maps(input.values[f[i]].value)
        /\ Permuted(input, v)

\* A Map of two entries with equal keys and different values: both are kept,
\* each key with its own value.
C11_Witness ==
    /\ passes = 1
    /\ input.tag = "Map"
    /\ Len(input.values) = 2
    /\ input.values[1].key = input.values[2].key
    /\ input.values[1].value # input.values[2].value
    /\ input.values[1].key.tag = "Set"
    /\ Len(input.values[1].key.values) = 2
    /\ v.values[1].value = sort_maps(input.values[1].value)
    /\ v.values[2].value = sort_maps(input.values[2].value)
    /\ v # input

=============================================================================
